---- MODULE Spec2Model ----
(***************************************************************************)
(* A model of the mesh viewers of 3dObjectViewer: the loader and the base  *)
(* renderer of viewer_2d.py, the rotating, shading renderer of             *)
(* viewer_3d.py, and the two Application classes that wire them to the     *)
(* window's events.                                                        *)
(*                                                                         *)
(* Numbers.  The program computes in IEEE doubles.  The model keeps every  *)
(* finite real as an integer count of thousandths (1.0 is 1000), rounds    *)
(* each quotient to the nearest thousandth, and keeps the three values a   *)
(* double can take beside the finite ones: +inf, -inf and NaN.  Angles of  *)
(* rotation are thousandths of a radian, angles of shading thousandths of  *)
(* a degree.                                                               *)
(***************************************************************************)
EXTENDS Integers, Sequences, FiniteSets, TLC

Abs(n) == IF n < 0 THEN -n ELSE n

Sgn(n) == IF n < 0 THEN -1 ELSE IF n > 0 THEN 1 ELSE 0

\* a / b for integers, b # 0, rounded to the nearest integer.
RoundDiv(a, b) == Sgn(a) * Sgn(b) * ((2 * Abs(a) + Abs(b)) \div (2 * Abs(b)))

\* The largest r with r * r <= n, by bisection on lo..hi.
RECURSIVE IsqrtIn(_, _, _)
IsqrtIn(n, lo, hi) ==
    IF lo >= hi THEN lo
    ELSE LET mid == (lo + hi + 1) \div 2
         IN  IF mid * mid <= n THEN IsqrtIn(n, mid, hi) ELSE IsqrtIn(n, lo, mid - 1)

Isqrt(n) == IsqrtIn(n, 0, 46340)

(***************************************************************************)
(* Doubles: a finite value in thousandths, or one of inf, -inf, NaN.       *)
(***************************************************************************)
Fin(v) == [k |-> "fin", v |-> v]
PosInf == [k |-> "inf", v |-> 0]
NegInf == [k |-> "ninf", v |-> 0]
NaN    == [k |-> "nan", v |-> 0]

IsFinite(a) == a.k = "fin"
IsNaN(a) == a.k = "nan"

\* a < b on doubles (false whenever a NaN is compared).
NumLess(a, b) ==
    CASE a.k = "nan" \/ b.k = "nan" -> FALSE
      [] a.k = "fin" /\ b.k = "fin" -> a.v < b.v
      [] a.k = "ninf" -> b.k # "ninf"
      [] a.k = "inf" -> FALSE
      [] OTHER -> b.k = "inf"

\* Python's min(a, b) and max(a, b): the first argument unless the second beats it.
PyMin(a, b) == IF NumLess(b, a) THEN b ELSE a
PyMax(a, b) == IF NumLess(a, b) THEN b ELSE a

NumNeg(a) ==
    CASE a.k = "fin" -> Fin(-a.v)
      [] a.k = "inf" -> NegInf
      [] a.k = "ninf" -> PosInf
      [] OTHER -> NaN

NumAdd(a, b) ==
    CASE a.k = "nan" \/ b.k = "nan" -> NaN
      [] a.k = "fin" /\ b.k = "fin" -> Fin(a.v + b.v)
      [] a.k = "fin" -> b
      [] b.k = "fin" -> a
      [] a.k = b.k -> a
      [] OTHER -> NaN

NumSub(a, b) == NumAdd(a, NumNeg(b))

\* p * s for a finite p (thousandths) and a double s.
NumScale(p, s) ==
    CASE s.k = "fin" -> Fin(RoundDiv(p * s.v, 1000))
      [] s.k = "nan" -> NaN
      [] p = 0 -> NaN
      [] (p > 0) = (s.k = "inf") -> PosInf
      [] OTHER -> NegInf

\* a / b for a finite a (thousandths) and a double b.  A numpy double divided
\* by zero is inf (or NaN for 0/0), not an exception; a finite value divided
\* by an infinity is a zero.
NumDiv(a, b) ==
    CASE b.k = "nan" -> NaN
      [] b.k = "inf" \/ b.k = "ninf" -> Fin(0)
      [] b.v = 0 -> IF a = 0 THEN NaN ELSE IF a > 0 THEN PosInf ELSE NegInf
      [] OTHER -> Fin(RoundDiv(a * 1000, b.v))

(***************************************************************************)
(* The mesh: Vertex, Face, Object3D.  Coordinates are thousandths.         *)
(***************************************************************************)
Vertex(id, x, y, z) == [id |-> id, x |-> x, y |-> y, z |-> z]

Face(v1, v2, v3) == <<v1, v2, v3>>

\* Application.object before any file is opened.
None == [is_none |-> TRUE, vertices |-> <<>>, faces |-> <<>>]

\* Object3D(): a mesh with no vertex and no face.
Object3D == [is_none |-> FALSE, vertices |-> <<>>, faces |-> <<>>]

(***************************************************************************)
(* Files.  A file is its sequence of lines, a line the sequence of its     *)
(* comma-separated fields, every field an integer literal.  Reading past   *)
(* the last line gives the empty line, which has no numeric field.         *)
(***************************************************************************)
readline(file, n) == IF n <= Len(file) THEN file[n] ELSE <<>>

\* Scenario A: one triangle in the plane z = 0.
TriangleFile == << <<3, 1>>, <<1, 0, 0, 0>>, <<2, 1, 0, 0>>, <<3, 0, 1, 0>>, <<1, 2, 3>> >>

\* A triangle standing on the plane z = 0, then two coplanar triangles side by
\* side in that plane, which share the depth 0 while the mesh is not rotated.
WedgeFile ==
    << <<5, 3>>, <<1, -1, 0, 0>>, <<2, 0, 1, 0>>, <<3, 0, -1, 0>>, <<4, 1, 0, 0>>,
       <<5, 0, 0, 1>>, <<2, 3, 5>>, <<1, 2, 3>>, <<2, 3, 4>> >>

\* A header of 0,0 and nothing else.
EmptyFile == << <<0, 0>> >>

\* One vertex, no face: every extent of the bounding box is zero.
PointFile == << <<1, 0>>, <<1, 1, 1, 0>> >>

\* Scenario D: the header declares 3 vertices and 2 follow.
TruncatedFile == << <<3, 1>>, <<1, 0, 0, 0>>, <<2, 1, 0, 0>> >>

\* A face naming a vertex that does not exist: id 0, and id 4 of 3.
ZeroIdFile == << <<3, 1>>, <<1, 0, 0, 0>>, <<2, 1, 0, 0>>, <<3, 0, 1, 1>>, <<0, 1, 2>> >>
HighIdFile == << <<3, 1>>, <<1, 0, 0, 0>>, <<2, 1, 0, 0>>, <<3, 0, 1, 1>>, <<1, 2, 4>> >>

Files ==
    { TriangleFile, WedgeFile, EmptyFile, PointFile, TruncatedFile, ZeroIdFile, HighIdFile }

(***************************************************************************)
(* Object3D.load_from_file.  The result is the object as the call leaves   *)
(* it and the exception it raised, "none" when it returned.                *)
(***************************************************************************)
\* The vertex loop from line `n` on, `left` vertices still to read.
RECURSIVE ReadVertices(_, _, _, _)
ReadVertices(obj, file, n, left) ==
    IF left <= 0 THEN [obj |-> obj, err |-> "none", n |-> n]
    ELSE LET line == readline(file, n)
         IN  IF Len(line) # 4 THEN [obj |-> obj, err |-> "ValueError", n |-> n]
             ELSE ReadVertices(
                      [obj EXCEPT !.vertices =
                          Append(@, Vertex(line[1], 1000 * line[2], 1000 * line[3],
                                           1000 * line[4]))],
                      file, n + 1, left - 1)

\* The face loop from line `n` on, `left` faces still to read.
RECURSIVE ReadFaces(_, _, _, _)
ReadFaces(obj, file, n, left) ==
    IF left <= 0 THEN [obj |-> obj, err |-> "none", n |-> n]
    ELSE LET line == readline(file, n)
         IN  IF Len(line) # 3 THEN [obj |-> obj, err |-> "ValueError", n |-> n]
             ELSE ReadFaces([obj EXCEPT !.faces = Append(@, Face(line[1], line[2], line[3]))],
                            file, n + 1, left - 1)

\* The face loop run after the vertex loop's outcome `vs`, unless that raised.
FacesAfter(vs, file, num_faces) ==
    IF vs.err # "none" THEN vs ELSE ReadFaces(vs.obj, file, vs.n, num_faces)

Outcome(r) == [obj |-> r.obj, err |-> r.err]

load_from_file(obj, file) ==
    IF Len(readline(file, 1)) # 2 THEN [obj |-> obj, err |-> "ValueError"]
    ELSE Outcome(FacesAfter(ReadVertices(obj, file, 2, readline(file, 1)[1]),
                            file, readline(file, 1)[2]))

\* The model follows the rotation angles up to this many thousandths of a radian.
MaxRotation == 200

(***************************************************************************)
(* Geometry: list indexing, Face.calculate_normal, the rotation.           *)
(***************************************************************************)
\* The 1-based position that Python's seq[i] reads in a list of n items,
\* 0 when seq[i] raises IndexError.  A negative i counts from the end.
PyIndex(n, i) ==
    IF 0 <= i /\ i < n THEN i + 1
    ELSE IF -n <= i /\ i < 0 THEN n + i + 1
    ELSE 0

\* Whether vertices[vid - 1] can be read for each of the face's three ids.
FaceReadable(face, vertices) ==
    \A k \in 1..3 : PyIndex(Len(vertices), face[k] - 1) # 0

\* vertices[face.vertex_ids[k - 1] - 1]
VertexOf(face, k, vertices) == vertices[PyIndex(Len(vertices), face[k] - 1)]

vertex_to_point(v) == <<v.x, v.y, v.z>>

\* The product of two values in thousandths.
Times(a, b) == RoundDiv(a * b, 1000)

Minus(p, q) == <<p[1] - q[1], p[2] - q[2], p[3] - q[3]>>

Cross(a, b) ==
    << Times(a[2], b[3]) - Times(a[3], b[2]),
       Times(a[3], b[1]) - Times(a[1], b[3]),
       Times(a[1], b[2]) - Times(a[2], b[1]) >>

Norm(p) == Isqrt(p[1] * p[1] + p[2] * p[2] + p[3] * p[3])

\* p / (n + 1e-10): the zero vector when n, the norm of p, is 0.
Over(p, n) ==
    IF n = 0 THEN <<0, 0, 0>>
    ELSE <<RoundDiv(p[1] * 1000, n), RoundDiv(p[2] * 1000, n), RoundDiv(p[3] * 1000, n)>>

\* p / (np.linalg.norm(p) + 1e-10): a vector just short of unit length.
Normalize(p) == Over(p, Norm(p))

calculate_normal(face, vertices) ==
    Normalize(Cross(Minus(vertex_to_point(VertexOf(face, 2, vertices)),
                          vertex_to_point(VertexOf(face, 1, vertices))),
                    Minus(vertex_to_point(VertexOf(face, 3, vertices)),
                          vertex_to_point(VertexOf(face, 1, vertices)))))

\* np.cos and np.sin of an angle in thousandths of a radian, by their series
\* in x2, the angle squared.
CosOf(x2) ==
    1000 - RoundDiv(x2, 2) + RoundDiv(Times(x2, x2), 24)
         - RoundDiv(Times(Times(x2, x2), x2), 720)

SinOf(a, x2) ==
    a - RoundDiv(Times(x2, a), 6) + RoundDiv(Times(Times(x2, x2), a), 120)
      - RoundDiv(Times(Times(Times(x2, x2), x2), a), 5040)

\* The angles a renderer can hold (see MaxRotation), and the two series
\* tabulated over them.
Angles == (0 - MaxRotation)..MaxRotation
CosTable == [a \in Angles |-> CosOf(Times(a, a))]
SinTable == [a \in Angles |-> SinOf(a, Times(a, a))]
Cos(a) == CosTable[a]
Sin(a) == SinTable[a]

\* rx_matrix @ point and ry_matrix @ point, given the angle's cosine and sine.
RotateX(point, c, s) ==
    << point[1], Times(c, point[2]) - Times(s, point[3]),
       Times(s, point[2]) + Times(c, point[3]) >>

RotateY(point, c, s) ==
    << Times(c, point[1]) + Times(s, point[3]), point[2],
       Times(c, point[3]) - Times(s, point[1]) >>

\* Renderer3D.transform_point: the rotation about X, then the one about Y.
transform_point(point, rotation_x, rotation_y) ==
    RotateY(RotateX(point, Cos(rotation_x), Sin(rotation_x)),
            Cos(rotation_y), Sin(rotation_y))

(***************************************************************************)
(* BaseRenderer: the bounding box, the scale, the projection.              *)
(***************************************************************************)
RECURSIVE BoundingBoxFrom(_, _, _)
BoundingBoxFrom(vertices, i, box) ==
    IF i > Len(vertices) THEN box
    ELSE BoundingBoxFrom(vertices, i + 1,
             [ min_x |-> PyMin(box.min_x, Fin(vertices[i].x)),
               max_x |-> PyMax(box.max_x, Fin(vertices[i].x)),
               min_y |-> PyMin(box.min_y, Fin(vertices[i].y)),
               max_y |-> PyMax(box.max_y, Fin(vertices[i].y)),
               min_z |-> PyMin(box.min_z, Fin(vertices[i].z)),
               max_z |-> PyMax(box.max_z, Fin(vertices[i].z)) ])

calculate_bounding_box(obj) ==
    BoundingBoxFrom(obj.vertices, 1,
        [ min_x |-> PosInf, max_x |-> NegInf, min_y |-> PosInf, max_y |-> NegInf,
          min_z |-> PosInf, max_z |-> NegInf ])

\* obj_width, obj_height and obj_depth.
Extents(box) ==
    [ obj_width |-> NumSub(box.max_x, box.min_x),
      obj_height |-> NumSub(box.max_y, box.min_y),
      obj_depth |-> NumSub(box.max_z, box.min_z) ]

\* scale_x, scale_y and scale_z, target_ratio being 0.5.
ScaleFactors(ext, canvas_width, canvas_height) ==
    [ scale_x |-> NumDiv(canvas_width * 500, ext.obj_width),
      scale_y |-> NumDiv(canvas_height * 500, ext.obj_height),
      scale_z |-> NumDiv((canvas_width + canvas_height) * 500,
                         NumAdd(ext.obj_depth, ext.obj_depth)) ]

\* min([scale_x, scale_y, scale_z]) or min([scale_x, scale_y])
MinFactor(f, is_3d) ==
    IF is_3d THEN PyMin(PyMin(f.scale_x, f.scale_y), f.scale_z)
    ELSE PyMin(f.scale_x, f.scale_y)

\* The value normalize_scale leaves in self.scale.
normalize_scale(obj, canvas_width, canvas_height, is_3d) ==
    MinFactor(ScaleFactors(Extents(calculate_bounding_box(obj)), canvas_width, canvas_height),
              is_3d)

\* project_point: the screen x and y of a point, and its z (3D only).
project_point(point, scale, canvas_width, canvas_height) ==
    << NumAdd(Fin(canvas_width * 500), NumScale(point[1], scale)),
       NumSub(Fin(canvas_height * 500), NumScale(point[2], scale)),
       point[3] >>

(***************************************************************************)
(* Shading.                                                                *)
(***************************************************************************)
\* math.degrees(np.arccos(k / 1000)) in thousandths of a degree, k = 0..1000,
\* at position k + 1.
ArccosTable ==
  <<
     90000, 89943, 89885, 89828, 89771, 89714, 89656, 89599, 89542, 89484, 89427, 89370, 89312, 89255, 89198, 89141, 89083, 89026, 88969, 88911,
     88854, 88797, 88739, 88682, 88625, 88567, 88510, 88453, 88396, 88338, 88281, 88224, 88166, 88109, 88052, 87994, 87937, 87880, 87822, 87765,
     87708, 87650, 87593, 87536, 87478, 87421, 87363, 87306, 87249, 87191, 87134, 87077, 87019, 86962, 86905, 86847, 86790, 86732, 86675, 86618,
     86560, 86503, 86445, 86388, 86331, 86273, 86216, 86158, 86101, 86043, 85986, 85929, 85871, 85814, 85756, 85699, 85641, 85584, 85526, 85469,
     85411, 85354, 85296, 85239, 85181, 85124, 85066, 85009, 84951, 84894, 84836, 84779, 84721, 84664, 84606, 84549, 84491, 84434, 84376, 84318,
     84261, 84203, 84146, 84088, 84030, 83973, 83915, 83858, 83800, 83742, 83685, 83627, 83569, 83512, 83454, 83396, 83339, 83281, 83223, 83166,
     83108, 83050, 82992, 82935, 82877, 82819, 82761, 82704, 82646, 82588, 82530, 82473, 82415, 82357, 82299, 82241, 82184, 82126, 82068, 82010,
     81952, 81894, 81836, 81779, 81721, 81663, 81605, 81547, 81489, 81431, 81373, 81315, 81257, 81199, 81141, 81083, 81025, 80967, 80909, 80851,
     80793, 80735, 80677, 80619, 80561, 80503, 80445, 80387, 80328, 80270, 80212, 80154, 80096, 80038, 79980, 79921, 79863, 79805, 79747, 79688,
     79630, 79572, 79514, 79455, 79397, 79339, 79281, 79222, 79164, 79106, 79047, 78989, 78930, 78872, 78814, 78755, 78697, 78638, 78580, 78522,
     78463, 78405, 78346, 78288, 78229, 78171, 78112, 78053, 77995, 77936, 77878, 77819, 77760, 77702, 77643, 77584, 77526, 77467, 77408, 77350,
     77291, 77232, 77173, 77115, 77056, 76997, 76938, 76879, 76821, 76762, 76703, 76644, 76585, 76526, 76467, 76408, 76349, 76290, 76231, 76172,
     76113, 76054, 75995, 75936, 75877, 75818, 75759, 75700, 75641, 75582, 75522, 75463, 75404, 75345, 75286, 75226, 75167, 75108, 75049, 74989,
     74930, 74871, 74811, 74752, 74692, 74633, 74574, 74514, 74455, 74395, 74336, 74276, 74217, 74157, 74098, 74038, 73978, 73919, 73859, 73799,
     73740, 73680, 73620, 73561, 73501, 73441, 73381, 73322, 73262, 73202, 73142, 73082, 73022, 72962, 72902, 72842, 72782, 72722, 72662, 72602,
     72542, 72482, 72422, 72362, 72302, 72242, 72182, 72121, 72061, 72001, 71941, 71880, 71820, 71760, 71700, 71639, 71579, 71518, 71458, 71398,
     71337, 71277, 71216, 71156, 71095, 71034, 70974, 70913, 70853, 70792, 70731, 70671, 70610, 70549, 70488, 70427, 70367, 70306, 70245, 70184,
     70123, 70062, 70001, 69940, 69879, 69818, 69757, 69696, 69635, 69574, 69513, 69452, 69390, 69329, 69268, 69207, 69145, 69084, 69023, 68961,
     68900, 68838, 68777, 68715, 68654, 68592, 68531, 68469, 68408, 68346, 68284, 68223, 68161, 68099, 68037, 67976, 67914, 67852, 67790, 67728,
     67666, 67604, 67542, 67480, 67418, 67356, 67294, 67232, 67170, 67108, 67046, 66983, 66921, 66859, 66796, 66734, 66672, 66609, 66547, 66484,
     66422, 66359, 66297, 66234, 66172, 66109, 66046, 65983, 65921, 65858, 65795, 65732, 65669, 65607, 65544, 65481, 65418, 65355, 65292, 65229,
     65165, 65102, 65039, 64976, 64913, 64849, 64786, 64723, 64659, 64596, 64532, 64469, 64405, 64342, 64278, 64215, 64151, 64087, 64024, 63960,
     63896, 63832, 63768, 63705, 63641, 63577, 63513, 63449, 63385, 63320, 63256, 63192, 63128, 63064, 62999, 62935, 62871, 62806, 62742, 62677,
     62613, 62548, 62484, 62419, 62354, 62290, 62225, 62160, 62095, 62031, 61966, 61901, 61836, 61771, 61706, 61641, 61576, 61510, 61445, 61380,
     61315, 61249, 61184, 61118, 61053, 60988, 60922, 60856, 60791, 60725, 60659, 60594, 60528, 60462, 60396, 60330, 60264, 60198, 60132, 60066,
     60000, 59934, 59868, 59801, 59735, 59669, 59602, 59536, 59469, 59403, 59336, 59270, 59203, 59136, 59069, 59003, 58936, 58869, 58802, 58735,
     58668, 58601, 58533, 58466, 58399, 58332, 58264, 58197, 58130, 58062, 57995, 57927, 57859, 57792, 57724, 57656, 57588, 57520, 57452, 57384,
     57316, 57248, 57180, 57112, 57044, 56975, 56907, 56839, 56770, 56702, 56633, 56564, 56496, 56427, 56358, 56289, 56220, 56151, 56082, 56013,
     55944, 55875, 55806, 55736, 55667, 55598, 55528, 55459, 55389, 55319, 55250, 55180, 55110, 55040, 54970, 54900, 54830, 54760, 54690, 54620,
     54549, 54479, 54409, 54338, 54268, 54197, 54126, 54056, 53985, 53914, 53843, 53772, 53701, 53630, 53559, 53487, 53416, 53345, 53273, 53202,
     53130, 53058, 52987, 52915, 52843, 52771, 52699, 52627, 52555, 52483, 52410, 52338, 52266, 52193, 52121, 52048, 51975, 51903, 51830, 51757,
     51684, 51611, 51538, 51464, 51391, 51318, 51244, 51171, 51097, 51024, 50950, 50876, 50802, 50728, 50654, 50580, 50506, 50432, 50357, 50283,
     50208, 50134, 50059, 49984, 49909, 49834, 49759, 49684, 49609, 49534, 49458, 49383, 49307, 49232, 49156, 49080, 49004, 48929, 48852, 48776,
     48700, 48624, 48547, 48471, 48394, 48318, 48241, 48164, 48087, 48010, 47933, 47856, 47778, 47701, 47623, 47546, 47468, 47390, 47312, 47234,
     47156, 47078, 47000, 46921, 46843, 46764, 46686, 46607, 46528, 46449, 46370, 46291, 46211, 46132, 46052, 45973, 45893, 45813, 45733, 45653,
     45573, 45493, 45412, 45332, 45251, 45170, 45090, 45009, 44928, 44846, 44765, 44684, 44602, 44520, 44439, 44357, 44275, 44193, 44110, 44028,
     43946, 43863, 43780, 43697, 43614, 43531, 43448, 43365, 43281, 43197, 43114, 43030, 42946, 42862, 42777, 42693, 42608, 42524, 42439, 42354,
     42269, 42183, 42098, 42012, 41927, 41841, 41755, 41669, 41583, 41496, 41410, 41323, 41236, 41149, 41062, 40975, 40887, 40800, 40712, 40624,
     40536, 40448, 40359, 40271, 40182, 40093, 40004, 39915, 39825, 39736, 39646, 39556, 39466, 39376, 39286, 39195, 39104, 39013, 38922, 38831,
     38739, 38648, 38556, 38464, 38372, 38279, 38187, 38094, 38001, 37908, 37814, 37721, 37627, 37533, 37439, 37345, 37250, 37155, 37060, 36965,
     36870, 36774, 36678, 36582, 36486, 36390, 36293, 36196, 36099, 36002, 35904, 35806, 35708, 35610, 35511, 35413, 35314, 35214, 35115, 35015,
     34915, 34815, 34714, 34614, 34513, 34412, 34310, 34208, 34106, 34004, 33901, 33798, 33695, 33592, 33488, 33384, 33280, 33175, 33070, 32965,
     32860, 32754, 32648, 32542, 32435, 32328, 32221, 32113, 32005, 31897, 31788, 31679, 31570, 31461, 31351, 31240, 31130, 31019, 30907, 30796,
     30683, 30571, 30458, 30345, 30231, 30117, 30003, 29888, 29773, 29657, 29541, 29425, 29308, 29191, 29073, 28955, 28836, 28717, 28598, 28478,
     28358, 28237, 28115, 27994, 27871, 27748, 27625, 27501, 27377, 27252, 27127, 27001, 26874, 26747, 26620, 26492, 26363, 26234, 26104, 25973,
     25842, 25710, 25578, 25445, 25311, 25177, 25042, 24906, 24770, 24632, 24495, 24356, 24217, 24077, 23936, 23794, 23652, 23509, 23365, 23220,
     23074, 22927, 22780, 22631, 22482, 22332, 22180, 22028, 21875, 21721, 21565, 21409, 21251, 21093, 20933, 20772, 20610, 20446, 20282, 20116,
     19948, 19780, 19610, 19438, 19265, 19091, 18915, 18738, 18558, 18377, 18195, 18010, 17824, 17636, 17446, 17254, 17060, 16863, 16665, 16464,
     16260, 16054, 15846, 15635, 15421, 15204, 14984, 14760, 14534, 14304, 14070, 13832, 13590, 13344, 13094, 12839, 12578, 12312, 12041, 11763,
     11478, 11187, 10887, 10580, 10263, 9936, 9599, 9249, 8885, 8506, 8110, 7693, 7252, 6783, 6280, 5732, 5126, 4439, 3624, 2563,
     0
  >>

\* np.arccos(abs(z)) in thousandths of a degree.  `short` says that z is a
\* component of a vector divided by (its norm + 1e-10): a z that reads 1000
\* is then 0.9999999999, 0.0008 degrees off the axis.
ArccosDeg(z, short) ==
    IF Abs(z) >= 1000 THEN (IF short THEN 1 ELSE 0) ELSE ArccosTable[Abs(z) + 1]

\* color_value of calculate_color: intensity * 160 is (90 - angle_deg) * 160 / 90,
\* and int() drops the fraction of a positive value.
ColorValue(angle_deg) == 95 + ((90000 - angle_deg) * 160) \div 90000

\* Renderer3D.calculate_color: '#0000' and color_value in two hex digits.
calculate_color(z, short) ==
    [red |-> 0, green |-> 0, blue |-> ColorValue(ArccosDeg(z, short))]

(***************************************************************************)
(* Renderer3D.render.                                                      *)
(***************************************************************************)
\* transformed_vertices of a face.
TransformedVertices(face, obj, self) ==
    [ k \in 1..3 |->
        transform_point(vertex_to_point(VertexOf(face, k, obj.vertices)),
                        self.rotation_x, self.rotation_y) ]

\* transformed_normal of a face, normalised again after the rotation.
TransformedNormal(face, obj, self) ==
    Normalize(transform_point(calculate_normal(face, obj.vertices),
                              self.rotation_x, self.rotation_y))

ScreenXY(p) == <<p[1], p[2]>>

\* One entry of face_data: (center_z, projected_vertices, color).
FaceEntry(tv, tn, self, canvas_width, canvas_height) ==
    [ center_z |-> RoundDiv(tv[1][3] + tv[2][3] + tv[3][3], 3),
      points |-> [ k \in 1..3 |->
                     ScreenXY(project_point(tv[k], self.scale, canvas_width, canvas_height)) ],
      color |-> calculate_color(tn[3], TRUE) ]

FaceData(face, obj, self, canvas_width, canvas_height) ==
    FaceEntry(TransformedVertices(face, obj, self), TransformedNormal(face, obj, self),
              self, canvas_width, canvas_height)

\* list.sort(key = center_z): ascending, equal keys keeping their order.
RECURSIVE InsertByDepth(_, _)
InsertByDepth(sorted, item) ==
    IF sorted = <<>> THEN <<item>>
    ELSE IF item.center_z < Head(sorted).center_z THEN <<item>> \o sorted
    ELSE <<Head(sorted)>> \o InsertByDepth(Tail(sorted), item)

RECURSIVE SortFrom(_, _, _)
SortFrom(face_data, i, sorted) ==
    IF i > Len(face_data) THEN sorted
    ELSE SortFrom(face_data, i + 1, InsertByDepth(sorted, face_data[i]))

\* A sort that puts an entry before the entries of equal depth already placed.
RECURSIVE InsertBeforeEqual(_, _)
InsertBeforeEqual(sorted, item) ==
    IF sorted = <<>> THEN <<item>>
    ELSE IF item.center_z <= Head(sorted).center_z THEN <<item>> \o sorted
    ELSE <<Head(sorted)>> \o InsertBeforeEqual(Tail(sorted), item)

RECURSIVE UnstableSortFrom(_, _, _)
UnstableSortFrom(face_data, i, sorted) ==
    IF i > Len(face_data) THEN sorted
    ELSE UnstableSortFrom(face_data, i + 1, InsertBeforeEqual(sorted, face_data[i]))

sort_by_depth_unstable(face_data) == UnstableSortFrom(face_data, 1, <<>>)

sort_by_depth(face_data) == SortFrom(face_data, 1, <<>>)

\* canvas.create_polygon(points, fill=color, outline='blue')
Polygon(d) == [cmd |-> "polygon", points |-> d.points, fill |-> d.color, outline |-> "blue"]

Polygons(sorted) == [i \in 1..Len(sorted) |-> Polygon(sorted[i])]

\* canvas.create_oval(x-3, y-3, x+3, y+3, fill='blue')
Oval(x, y) ==
    [ cmd |-> "oval", x0 |-> NumAdd(x, Fin(-3000)), y0 |-> NumAdd(y, Fin(-3000)),
      x1 |-> NumAdd(x, Fin(3000)), y1 |-> NumAdd(y, Fin(3000)), fill |-> "blue" ]

\* The oval of a projected vertex, unless a coordinate is NaN.
OvalUnlessNaN(p) ==
    IF ~IsNaN(p[1]) /\ ~IsNaN(p[2]) THEN <<Oval(p[1], p[2])>> ELSE <<>>

\* The vertex loop of Renderer3D.render from vertex i on.
RECURSIVE Ovals3D(_, _, _, _, _)
Ovals3D(obj, self, canvas_width, canvas_height, i) ==
    IF i > Len(obj.vertices) THEN <<>>
    ELSE OvalUnlessNaN(
             project_point(transform_point(vertex_to_point(obj.vertices[i]),
                                           self.rotation_x, self.rotation_y),
                           self.scale, canvas_width, canvas_height))
         \o Ovals3D(obj, self, canvas_width, canvas_height, i + 1)

\* The body of Renderer3D.render after normalize_scale and canvas.delete("all"):
\* the face loop raises before anything is drawn, or all is drawn.
Draw3D(obj, self, canvas_width, canvas_height) ==
    IF \E i \in 1..Len(obj.faces) : ~FaceReadable(obj.faces[i], obj.vertices)
    THEN [self |-> self, canvas |-> <<>>, err |-> "IndexError"]
    ELSE [ self |-> self,
           canvas |->
               Polygons(sort_by_depth(
                   [ i \in 1..Len(obj.faces) |->
                       FaceData(obj.faces[i], obj, self, canvas_width, canvas_height) ]))
               \o Ovals3D(obj, self, canvas_width, canvas_height, 1),
           err |-> "none" ]

\* The object with every vertex turned by the renderer's rotation angles.
RotatedObject(obj, self) ==
    [ obj EXCEPT !.vertices =
        [ i \in 1..Len(obj.vertices) |->
            Vertex(obj.vertices[i].id,
                   transform_point(vertex_to_point(obj.vertices[i]),
                                   self.rotation_x, self.rotation_y)[1],
                   transform_point(vertex_to_point(obj.vertices[i]),
                                   self.rotation_x, self.rotation_y)[2],
                   transform_point(vertex_to_point(obj.vertices[i]),
                                   self.rotation_x, self.rotation_y)[3]) ] ]

\* A scale fitted to the bounding box of the rotated vertices.
scaled_to_rotated(self, obj, canvas_width, canvas_height, is_3d) ==
    [self EXCEPT !.scale = normalize_scale(IF is_3d THEN RotatedObject(obj, self) ELSE obj,
                                           canvas_width, canvas_height, is_3d)]

\* self after normalize_scale(obj, is_3d).
Scaled(self, obj, canvas_width, canvas_height, is_3d) ==
    [self EXCEPT !.scale = normalize_scale(obj, canvas_width, canvas_height, is_3d)]

\* A render that draws with the scale of the render before it and computes the
\* new scale afterwards.
render_3d_scale_last(self, obj, canvas_width, canvas_height) ==
    [ Draw3D(obj, self, canvas_width, canvas_height) EXCEPT
        !.self = Scaled(self, obj, canvas_width, canvas_height, TRUE) ]

\* Renderer3D.render: the renderer, the canvas and the exception it leaves.
render_3d(self, obj, canvas_width, canvas_height) ==
    Draw3D(obj, Scaled(self, obj, canvas_width, canvas_height, TRUE),
           canvas_width, canvas_height)

(***************************************************************************)
(* Renderer2D.render.                                                      *)
(***************************************************************************)
\* canvas.create_line(x1, y1, x2, y2, fill='blue', width=1)
Line(p, q) ==
    [ cmd |-> "line", x1 |-> p[1], y1 |-> p[2], x2 |-> q[1], y2 |-> q[2],
      fill |-> "blue", width |-> 1 ]

\* The line between the vertices at positions p1 and p2.
Edge(obj, self, canvas_width, canvas_height, p1, p2) ==
    Line(project_point(vertex_to_point(obj.vertices[p1]), self.scale,
                       canvas_width, canvas_height),
         project_point(vertex_to_point(obj.vertices[p2]), self.scale,
                       canvas_width, canvas_height))

\* The edge loop from edge e on (edge e is side e % 3 of face e \div 3 + 1):
\* the lines drawn until the loop ends or an index is out of range.
RECURSIVE Lines2D(_, _, _, _, _, _)
Lines2D(obj, self, canvas_width, canvas_height, e, drawn) ==
    IF e >= 3 * Len(obj.faces) THEN [canvas |-> drawn, err |-> "none"]
    ELSE IF \/ PyIndex(Len(obj.vertices), obj.faces[(e \div 3) + 1][(e % 3) + 1] - 1) = 0
            \/ PyIndex(Len(obj.vertices), obj.faces[(e \div 3) + 1][((e + 1) % 3) + 1] - 1) = 0
    THEN [canvas |-> drawn, err |-> "IndexError"]
    ELSE Lines2D(obj, self, canvas_width, canvas_height, e + 1,
             Append(drawn,
                 Edge(obj, self, canvas_width, canvas_height,
                      PyIndex(Len(obj.vertices), obj.faces[(e \div 3) + 1][(e % 3) + 1] - 1),
                      PyIndex(Len(obj.vertices),
                              obj.faces[(e \div 3) + 1][((e + 1) % 3) + 1] - 1))))

Ovals2D(obj, self, canvas_width, canvas_height) ==
    [ i \in 1..Len(obj.vertices) |->
        Oval(project_point(vertex_to_point(obj.vertices[i]), self.scale,
                           canvas_width, canvas_height)[1],
             project_point(vertex_to_point(obj.vertices[i]), self.scale,
                           canvas_width, canvas_height)[2]) ]

\* The vertex loop, run unless the edge loop raised.
Draw2D(obj, self, canvas_width, canvas_height, lines) ==
    IF lines.err # "none" THEN [self |-> self, canvas |-> lines.canvas, err |-> lines.err]
    ELSE [ self |-> self,
           canvas |-> lines.canvas \o Ovals2D(obj, self, canvas_width, canvas_height),
           err |-> "none" ]

RenderScaled2D(obj, self, canvas_width, canvas_height) ==
    Draw2D(obj, self, canvas_width, canvas_height,
           Lines2D(obj, self, canvas_width, canvas_height, 0, <<>>))

\* Renderer2D.render: the renderer, the canvas and the exception it leaves.
render_2d(self, obj, canvas_width, canvas_height) ==
    RenderScaled2D(obj, Scaled(self, obj, canvas_width, canvas_height, FALSE),
                   canvas_width, canvas_height)

(***************************************************************************)
(* The applications.  `mode` is the program that runs: viewer_2d.py's       *)
(* Application ("2d") or viewer_3d.py's ("3d").                            *)
(***************************************************************************)
VARIABLES
    mode,       \* "2d" or "3d"
    object,     \* Application.object
    renderer,   \* Application.renderer: scale (and rotation_x, rotation_y, last_x, last_y)
    width,      \* canvas.winfo_width()
    height,     \* canvas.winfo_height()
    canvas,     \* the items on the canvas, in the order they were created
    event,      \* the event the last handler was called for
    error,      \* the exception that handler raised, "none" when it returned
    filename,   \* the file the last open action read (its lines)
    shade,      \* a call of calculate_color: its argument and its result
    pc,         \* where the running callback is: "idle" in the event loop
    pending,    \* the events Tk has queued and not yet handed to a callback
    gesture     \* the view state at the last button-down and the moves since

vars == <<mode, object, renderer, width, height, canvas, event, error, filename, shade,
          pc, pending, gesture>>

\* tk.Canvas(self.root, width=800, height=600)
CanvasWidth == 800
CanvasHeight == 600

\* BaseRenderer.__init__: self.scale = 100
InitialScale == 100

\* self.rotation_y += dx * 0.01: thousandths of a radian per pixel
Sensitivity == 10

\* The sizes the window is given: its first size and the same turned upright.
Sizes == { <<CanvasWidth, CanvasHeight>>, <<CanvasHeight, CanvasWidth>> }

\* The pointer positions events carry: Scenario C's two and one further along.
PointerBase == 100
Pointers ==
    { <<PointerBase, PointerBase>>, <<PointerBase + 10, PointerBase + 5>>,
      <<PointerBase + 20, PointerBase + 10>> }

\* Renderer2D(canvas)
Renderer2D == [scale |-> Fin(1000 * InitialScale)]

\* Renderer3D(canvas)
Renderer3D ==
    [ scale |-> Fin(1000 * InitialScale), rotation_x |-> 0, rotation_y |-> 0,
      last_x |-> 0, last_y |-> 0 ]

\* An event: for a pointer event its position; for a render, in x, whether the
\* handler before it rendered too.
Event(type, x, y) == [type |-> type, x |-> x, y |-> y]

\* No call of calculate_color is being followed.
NoShade == [z |-> 0, short |-> FALSE, color |-> <<>>]

\* No button has gone down on a loaded mesh yet.
NoGesture ==
    [held |-> FALSE, x |-> 0, y |-> 0, rotation_x |-> 0, rotation_y |-> 0, moves |-> 0]

\* Application.__init__
Init ==
    /\ mode \in {"2d", "3d"}
    /\ object = None
    /\ renderer = IF mode = "2d" THEN Renderer2D ELSE Renderer3D
    /\ width = CanvasWidth
    /\ height = CanvasHeight
    /\ canvas = <<>>
    /\ event = Event("none", 0, 0)
    /\ error = "none"
    /\ filename = <<>>
    /\ shade = NoShade
    /\ pc = "idle"
    /\ pending = <<>>
    /\ gesture = NoGesture

\* self.renderer.render(obj) in the running program.
render(self, obj) ==
    IF mode = "2d" THEN render_2d(self, obj, width, height)
    ELSE render_3d(self, obj, width, height)

\* The last handler ran render on the object, to its end or to an IndexError.
Rendered ==
    /\ event.type \in {"open", "motion", "render"}
    /\ ~object.is_none
    /\ error # "ValueError"

\* An open that reads the file into the object already there, when there is one.
loaded_object_kept(current, file) ==
    load_from_file(IF current.is_none THEN Object3D ELSE current, file)

\* self.object = Object3D(); self.object.load_from_file(filename)
loaded_object(current, file) == load_from_file(Object3D, file)

\* An open that builds a new renderer for the new mesh.
load_file_new_renderer(file) ==
    \E loaded \in {loaded_object(object, file)} :
        /\ object' = loaded.obj
        /\ filename' = file
        /\ event' = Event("open", 0, 0)
        /\ IF loaded.err # "none"
           THEN /\ error' = loaded.err
                /\ UNCHANGED <<renderer, canvas>>
           ELSE \E r \in {render(IF mode = "2d" THEN Renderer2D ELSE Renderer3D, loaded.obj)} :
                    /\ renderer' = r.self
                    /\ canvas' = r.canvas
                    /\ error' = r.err
        /\ UNCHANGED <<mode, width, height, shade>>

\* Application.load_file with the dialog answered by `file`.
load_file(file) ==
    \E loaded \in {loaded_object(object, file)} :
        /\ object' = loaded.obj
        /\ filename' = file
        /\ event' = Event("open", 0, 0)
        /\ IF loaded.err # "none"
           THEN /\ error' = loaded.err
                /\ UNCHANGED <<renderer, canvas>>
           ELSE \E r \in {render(renderer, loaded.obj)} :
                    /\ renderer' = r.self
                    /\ canvas' = r.canvas
                    /\ error' = r.err
        /\ UNCHANGED <<mode, width, height, shade>>

\* Renderer3D.start_drag, bound to <Button-1>.
start_drag(x, y) ==
    /\ mode = "3d"
    /\ renderer' = [renderer EXCEPT !.last_x = x, !.last_y = y]
    /\ event' = Event("button", x, y)
    /\ error' = "none"
    /\ UNCHANGED <<mode, object, width, height, canvas, filename, shade>>

\* A drag that turns about X for a horizontal move and about Y for a vertical one.
drag_axes_swapped(self, x, y) ==
    [ self EXCEPT !.rotation_x = @ + (x - self.last_x) * Sensitivity,
                  !.rotation_y = @ + (y - self.last_y) * Sensitivity,
                  !.last_x = x,
                  !.last_y = y ]

\* A drag that measures every move from where the button went down: it does not
\* record the position it has reached.
drag_keeps_origin(self, x, y) ==
    [ self EXCEPT !.rotation_y = @ + (x - self.last_x) * Sensitivity,
                  !.rotation_x = @ + (y - self.last_y) * Sensitivity ]

\* Renderer3D.drag up to its call of render.
drag(self, x, y) ==
    [ self EXCEPT !.rotation_y = @ + (x - self.last_x) * Sensitivity,
                  !.rotation_x = @ + (y - self.last_y) * Sensitivity,
                  !.last_x = x,
                  !.last_y = y ]

\* A handler that lets the renderer take the pointer-move before it looks for
\* an object, and renders only when there is one.
handle_drag_unguarded(x, y) ==
    /\ mode = "3d"
    /\ event' = Event("motion", x, y)
    /\ \E dragged \in {drag(renderer, x, y)} :
           /\ Abs(dragged.rotation_x) <= MaxRotation
           /\ Abs(dragged.rotation_y) <= MaxRotation
           /\ \E r \in { IF object.is_none
                         THEN [self |-> dragged, canvas |-> canvas, err |-> "none"]
                         ELSE render(dragged, object) } :
                  /\ renderer' = r.self
                  /\ canvas' = r.canvas
                  /\ error' = r.err
    /\ UNCHANGED <<mode, object, width, height, filename, shade>>

\* Application.handle_drag, bound to <B1-Motion>.
handle_drag(x, y) ==
    /\ mode = "3d"
    /\ event' = Event("motion", x, y)
    /\ IF object.is_none
       THEN /\ error' = "none"
            /\ UNCHANGED <<renderer, canvas>>
       ELSE \E dragged \in {drag(renderer, x, y)} :
                /\ Abs(dragged.rotation_x) <= MaxRotation
                /\ Abs(dragged.rotation_y) <= MaxRotation
                /\ \E r \in {render(dragged, object)} :
                       /\ renderer' = r.self
                       /\ canvas' = r.canvas
                       /\ error' = r.err
    /\ UNCHANGED <<mode, object, width, height, filename, shade>>

\* A further call of renderer.render(object).
render_again ==
    /\ ~object.is_none
    /\ \E r \in {render(renderer, object)} :
           /\ renderer' = r.self
           /\ canvas' = r.canvas
           /\ error' = r.err
    /\ event' = Event("render", IF Rendered THEN 1 ELSE 0, 0)
    /\ UNCHANGED <<mode, object, width, height, filename, shade>>

\* The user resizes the window; the canvas keeps its items.
resize(w, h) ==
    /\ <<w, h>> # <<width, height>>
    /\ width' = w
    /\ height' = h
    /\ event' = Event("configure", 0, 0)
    /\ error' = "none"
    /\ UNCHANGED <<mode, object, renderer, canvas, filename, shade>>

\* Each callback runs from the event loop to its end; no gesture is followed.
Next ==
    /\ \/ \E file \in Files : load_file(file)
       \/ \E p \in Pointers : start_drag(p[1], p[2])
       \/ \E p \in Pointers : handle_drag(p[1], p[2])
       \/ render_again
       \/ \E s \in Sizes : resize(s[1], s[2])
    /\ UNCHANGED <<pc, pending, gesture>>

Spec == Init /\ [][Next]_vars

(***************************************************************************)
(* calculate_color on its own: every z component a unit normal can have,   *)
(* exact or just short of it.                                              *)
(***************************************************************************)
InitShade ==
    /\ mode = "3d"
    /\ object = None
    /\ renderer = Renderer3D
    /\ width = CanvasWidth
    /\ height = CanvasHeight
    /\ canvas = <<>>
    /\ event = Event("none", 0, 0)
    /\ error = "none"
    /\ filename = <<>>
    /\ shade \in [z : -1000..1000, short : BOOLEAN, color : {<<>>}]
    /\ pc = "idle"
    /\ pending = <<>>
    /\ gesture = NoGesture

call_calculate_color ==
    /\ shade.color = <<>>
    /\ shade' = [shade EXCEPT !.color = calculate_color(shade.z, shade.short)]
    /\ UNCHANGED <<mode, object, renderer, width, height, canvas, event, error, filename,
                   pc, pending, gesture>>

NextShade == call_calculate_color

SpecShade == InitShade /\ [][NextShade]_vars
(***************************************************************************)
(* The 3D viewer with its drag gestures followed: what the view state was  *)
(* when the button last went down on a loaded mesh, and how many moves the *)
(* handler has been given since.                                           *)
(***************************************************************************)
MaxMoves == 2

InitGesture == Init /\ mode = "3d"

\* <Button-1>: start_drag, and the gesture starts from here.
gesture_start(x, y) ==
    /\ start_drag(x, y)
    /\ gesture' = IF object.is_none THEN NoGesture
                  ELSE [ held |-> TRUE, x |-> x, y |-> y,
                         rotation_x |-> renderer.rotation_x,
                         rotation_y |-> renderer.rotation_y, moves |-> 0 ]

\* <B1-Motion>: handle_drag, one more move of the gesture.
gesture_move(x, y) ==
    /\ handle_drag(x, y)
    /\ gesture' = IF gesture.held /\ gesture.moves < MaxMoves
                  THEN [gesture EXCEPT !.moves = @ + 1]
                  ELSE gesture

\* File > Open: load_file; the gesture is left as it is.
gesture_open(file) ==
    /\ load_file(file)
    /\ UNCHANGED gesture

NextGesture ==
    /\ \/ \E p \in Pointers : gesture_start(p[1], p[2])
       \/ \E p \in Pointers : gesture_move(p[1], p[2])
       \/ \E file \in Files : gesture_open(file)
    /\ UNCHANGED <<pc, pending>>

SpecGesture == InitGesture /\ [][NextGesture]_vars

(***************************************************************************)
(* The 3D viewer with the event loop in view: root.mainloop() takes one    *)
(* queued event at a time and calls its callback; Renderer3D.render is two *)
(* steps, the new scale with canvas.delete("all"), then the drawing. Tk    *)
(* goes on queueing events while a callback runs.                          *)
(***************************************************************************)
MaxPending == 1

\* The files the Open dialog is answered with here.
LoopFiles == {TriangleFile, HighIdFile}

\* A queued event: a pointer event with its position, or the File > Open
\* command with the file chosen.
Posted(type, x, y, file) == [type |-> type, x |-> x, y |-> y, file |-> file]

Posts ==
    { Posted("button", p[1], p[2], <<>>) : p \in Pointers }
    \cup { Posted("motion", p[1], p[2], <<>>) : p \in Pointers }
    \cup { Posted("open", 0, 0, file) : file \in LoopFiles }

InitLoop == Init /\ mode = "3d"

\* The user acts; Tk queues the event.
post(e) ==
    /\ Len(pending) < MaxPending
    /\ pending' = Append(pending, e)
    /\ UNCHANGED <<mode, object, renderer, width, height, canvas, event, error, filename,
                   shade, pc, gesture>>

\* The callback of event e up to its return or its call of render:
\* start_drag, handle_drag with drag, or load_file.
callback(e) ==
    /\ pending' = Tail(pending)
    /\ event' = Event(e.type, e.x, e.y)
    /\ CASE e.type = "button" ->
              /\ renderer' = [renderer EXCEPT !.last_x = e.x, !.last_y = e.y]
              /\ error' = "none"
              /\ UNCHANGED <<object, filename, pc>>
         [] e.type = "motion" ->
              IF object.is_none
              THEN /\ error' = "none"
                   /\ UNCHANGED <<renderer, object, filename, pc>>
              ELSE \E dragged \in {drag(renderer, e.x, e.y)} :
                       /\ Abs(dragged.rotation_x) <= MaxRotation
                       /\ Abs(dragged.rotation_y) <= MaxRotation
                       /\ renderer' = dragged
                       /\ error' = "none"
                       /\ pc' = "render"
                       /\ UNCHANGED <<object, filename>>
         [] e.type = "open" ->
              \E loaded \in {loaded_object(object, e.file)} :
                  /\ object' = loaded.obj
                  /\ filename' = e.file
                  /\ error' = loaded.err
                  /\ pc' = IF loaded.err = "none" THEN "render" ELSE "idle"
                  /\ UNCHANGED renderer
    /\ UNCHANGED <<mode, width, height, canvas, shade, gesture>>

\* An event loop that hands out the next event while a callback is running.
dispatch_reentrant ==
    /\ pending # <<>>
    /\ callback(Head(pending))

\* mainloop: with no callback running, the oldest queued event is handled.
dispatch ==
    /\ pc = "idle"
    /\ pending # <<>>
    /\ callback(Head(pending))

\* Renderer3D.render: self.normalize_scale(obj, is_3d=True); canvas.delete("all")
render_clear ==
    /\ pc = "render"
    /\ renderer' = Scaled(renderer, object, width, height, TRUE)
    /\ canvas' = <<>>
    /\ pc' = "draw"
    /\ UNCHANGED <<mode, object, width, height, event, error, filename, shade, pending,
                   gesture>>

\* Renderer3D.render: the face loop, the sort, the polygons and the ovals.
render_draw ==
    /\ pc = "draw"
    /\ \E r \in {Draw3D(object, renderer, width, height)} :
           /\ canvas' = r.canvas
           /\ error' = r.err
    /\ pc' = "idle"
    /\ UNCHANGED <<mode, object, renderer, width, height, event, filename, shade, pending,
                   gesture>>

NextLoop ==
    \/ \E e \in Posts : post(e)
    \/ dispatch
    \/ render_clear
    \/ render_draw

\* The callback that is running takes its next step.
callback_runs == pc # "idle" /\ pc' \in {"idle", "render", "draw"}

\* A callback that has been entered runs on: nothing but its own code decides
\* when render takes its next step, so it is not left waiting for ever.
SpecLoop == InitLoop /\ [][NextLoop]_vars /\ WF_pc(callback_runs)

(***************************************************************************)
(* The properties.                                                         *)
(***************************************************************************)
\* The canvas holds a complete 3D rendering of the object as it is now.
Fresh3D == mode = "3d" /\ Rendered /\ error = "none"

\* C1: when an open fails while reading the file, the application's object is
\* the one it had before the open (or still none).
C1_FailedOpenKeepsMesh ==
    [][(event'.type = "open" /\ error' = "ValueError") => object' = object]_vars

\* Every id of every face names a vertex of the mesh.
IdsInRange(obj) ==
    \A i \in 1..Len(obj.faces) : \A k \in 1..3 :
        obj.faces[i][k] \in 1..Len(obj.vertices)

\* C2: a mesh with a face id outside [1, vertex_count] is not rendered without
\* an error: the render that meets the face raises.
C2_UnknownVertexRaises == (Rendered /\ ~IdsInRange(object)) => error = "IndexError"

\* A file that load_from_file reads to its end: a header of two fields, then as
\* many vertex lines of four fields and face lines of three as it declares.
WellFormed(file) ==
    /\ Len(file) >= 1
    /\ Len(file[1]) = 2
    /\ file[1][1] >= 0 /\ file[1][2] >= 0
    /\ Len(file) >= 1 + file[1][1] + file[1][2]
    /\ \A i \in 1..file[1][1] : Len(file[1 + i]) = 4
    /\ \A j \in 1..file[1][2] : Len(file[1 + file[1][1] + j]) = 3

\* C3: after any events, the mesh of a well-formed file opened last has that
\* file's N vertices and M faces, line for line, and nothing else.
C3_MeshIsLastFile ==
    (filename # <<>> /\ WellFormed(filename)) =>
        /\ ~object.is_none
        /\ Len(object.vertices) = filename[1][1]
        /\ Len(object.faces) = filename[1][2]
        /\ \A i \in 1..filename[1][1] :
               object.vertices[i] =
                   Vertex(filename[1 + i][1], 1000 * filename[1 + i][2],
                          1000 * filename[1 + i][3], 1000 * filename[1 + i][4])
        /\ \A j \in 1..filename[1][2] :
               object.faces[j] = filename[1 + filename[1][1] + j]

\* A second mesh is active and has been turned by a drag.
C3_SecondMeshDragged ==
    /\ filename = TriangleFile
    /\ event.type = "motion"
    /\ renderer.rotation_y # 0
    /\ Len(canvas) = 4

\* C4: a pointer-move at p with a mesh loaded adds (p.x - last.x) * 0.01 to
\* rotation_y and (p.y - last.y) * 0.01 to rotation_x, then sets last to p.
C4_DragStep ==
    [][(event'.type = "motion" /\ ~object.is_none) =>
          /\ renderer'.rotation_y = renderer.rotation_y + (event'.x - renderer.last_x) * 10
          /\ renderer'.rotation_x = renderer.rotation_x + (event'.y - renderer.last_y) * 10
          /\ renderer'.last_x = event'.x
          /\ renderer'.last_y = event'.y]_vars

\* Scenario C: from (100,100) to (110,105) the angles become 0.1 and 0.05.
C4_ScenarioC ==
    /\ event = Event("motion", 110, 105)
    /\ ~object.is_none
    /\ renderer.rotation_y = 100
    /\ renderer.rotation_x = 50
    /\ renderer.last_x = 110 /\ renderer.last_y = 105

\* The depth key of face i: the mean z of its three rotated vertices.
DepthKey(i) ==
    RoundDiv(TransformedVertices(object.faces[i], object, renderer)[1][3]
             + TransformedVertices(object.faces[i], object, renderer)[2][3]
             + TransformedVertices(object.faces[i], object, renderer)[3][3], 3)

\* The faces in the order `order` are in ascending depth, equal depths in
\* the order of the mesh.
PaintersOrder(order) ==
    \A i, j \in DOMAIN order :
        i < j => \/ DepthKey(order[i]) < DepthKey(order[j])
                 \/ DepthKey(order[i]) = DepthKey(order[j]) /\ order[i] < order[j]

\* C5: the polygons of a 3D render are those of the faces in ascending depth,
\* faces of equal depth in their order in the mesh.
C5_PaintersOrder ==
    Fresh3D =>
        /\ Len(canvas) >= Len(object.faces)
        /\ \E order \in [1..Len(object.faces) -> 1..Len(object.faces)] :
               /\ PaintersOrder(order)
               /\ \A i \in 1..Len(object.faces) :
                      canvas[i] = Polygon(FaceData(object.faces[order[i]], object, renderer,
                                                   width, height))

\* A render in which two faces share a depth and a later face of the mesh is
\* painted before an earlier one.
C5_TieAndReorder ==
    /\ Fresh3D
    /\ Len(object.faces) = 3
    /\ DepthKey(2) = DepthKey(3)
    /\ DepthKey(2) < DepthKey(1)
    /\ canvas[3] = Polygon(FaceData(object.faces[1], object, renderer, width, height))

\* C6: a render that follows a render, with no drag, open or resize between,
\* leaves the canvas, the view state and the outcome as the first left them.
C6_RenderIdempotent ==
    [][(event'.type = "render" /\ event'.x = 1) =>
          /\ canvas' = canvas
          /\ renderer' = renderer
          /\ error' = error]_vars

\* A second render of a turned mesh that drew something.
C6_SecondRender ==
    /\ mode = "3d"
    /\ event = Event("render", 1, 0)
    /\ error = "none"
    /\ renderer.rotation_y # 0
    /\ Len(canvas) > 3

\* C7: the scale a render leaves is a finite number.
C7_ScaleIsFinite == (Rendered /\ object.vertices # <<>>) => IsFinite(renderer.scale)

\* C8: rendering the empty mesh raises nothing, draws nothing and leaves a
\* positive scale.
C8_EmptyMeshRendersNothing ==
    (Rendered /\ object.vertices = <<>> /\ object.faces = <<>>) =>
        /\ error = "none"
        /\ canvas = <<>>
        /\ IsFinite(renderer.scale)
        /\ renderer.scale.v > 0

\* C9: the colour of a normal is red 0, green 0 and blue
\* round(95 + (1 - angle_deg / 90) * 160).
C9_BlueIsRounded ==
    shade.color # <<>> =>
        /\ shade.color.red = 0
        /\ shade.color.green = 0
        /\ shade.color.blue =
               95 + RoundDiv((90000 - ArccosDeg(shade.z, shade.short)) * 160, 90000)

\* C10: in the 3D viewer an open leaves the rotation angles and the last
\* pointer position as they were, and when the file was read, the scale is
\* the one fitted to the new mesh.
C10_OpenKeepsRotation ==
    [][(mode = "3d" /\ event'.type = "open") =>
          /\ renderer'.rotation_x = renderer.rotation_x
          /\ renderer'.rotation_y = renderer.rotation_y
          /\ renderer'.last_x = renderer.last_x
          /\ renderer'.last_y = renderer.last_y
          /\ (error' # "ValueError" =>
                 renderer'.scale = normalize_scale(object', width, height, TRUE))]_vars

\* A file has been opened and rendered with the mesh before it turned.
C10_OpenedWhileTurned ==
    /\ mode = "3d"
    /\ event.type = "open"
    /\ error = "none"
    /\ renderer.rotation_y # 0
    /\ renderer.last_x # 0
    /\ canvas # <<>>

\* The screen position of vertex i of the object as the renderer shows it.
ProjectedVertex(i) ==
    project_point(transform_point(vertex_to_point(object.vertices[i]),
                                  renderer.rotation_x, renderer.rotation_y),
                  renderer.scale, width, height)

\* The vertices whose screen x and y are both finite, in vertex order.
FiniteVertices ==
    SelectSeq([i \in 1..Len(object.vertices) |-> i],
              LAMBDA i : IsFinite(ProjectedVertex(i)[1]) /\ IsFinite(ProjectedVertex(i)[2]))

\* C11: in a 3D render the ovals follow the polygons of all faces, and they are
\* those of the vertices with finite screen coordinates, one each, in vertex
\* order; a vertex with a NaN or infinite coordinate gets none.
C11_OvalsForFiniteVertices ==
    Fresh3D =>
        /\ Len(canvas) = Len(object.faces) + Len(FiniteVertices)
        /\ \A i \in 1..Len(object.faces) : canvas[i].cmd = "polygon"
        /\ \A j \in 1..Len(FiniteVertices) :
               canvas[Len(object.faces) + j]
                   = Oval(ProjectedVertex(FiniteVertices[j])[1],
                          ProjectedVertex(FiniteVertices[j])[2])

\* C13: in the 3D viewer, once the scale is the one fitted to the mesh on the
\* surface as it is, a button-down or pointer-move leaves it at that value,
\* whatever the rotation angles become.
C13_ScaleIgnoresRotation ==
    [][ ( /\ mode = "3d"
          /\ ~object.is_none
          /\ renderer.scale = normalize_scale(object, width, height, TRUE)
          /\ event'.type \in {"button", "motion"} )
        => renderer'.scale = renderer.scale ]_vars

\* A pointer-move has turned a mesh with faces about both axes and rendered it
\* with a finite scale.
C13_TurnedAboutBothAxes ==
    /\ Fresh3D
    /\ event.type = "motion"
    /\ renderer.rotation_x # 0
    /\ renderer.rotation_y # 0
    /\ Len(object.faces) = 3
    /\ IsFinite(renderer.scale)
    /\ renderer.scale = normalize_scale(object, width, height, TRUE)

\* C15: while no file has been opened a pointer-move leaves the rotation
\* angles, the last pointer position, the scale and the canvas as they are,
\* and raises nothing; so the open of the first file finds and leaves the
\* rotation at (0, 0).
C15_NoMeshNoDrag ==
    [][ /\ (filename = <<>> /\ event'.type = "motion")
            => /\ renderer' = renderer
               /\ canvas' = canvas
               /\ canvas' = <<>>
               /\ error' = "none"
               /\ object' = None
        /\ (filename = <<>> /\ mode = "3d" /\ event'.type = "open")
            => /\ renderer.rotation_x = 0 /\ renderer.rotation_y = 0
               /\ renderer'.rotation_x = 0 /\ renderer'.rotation_y = 0 ]_vars

\* Before any file is opened the button went down at one place and the
\* pointer moved to another.
C15_MovedBeforeAnyFile ==
    /\ mode = "3d"
    /\ filename = <<>>
    /\ object.is_none
    /\ event = Event("motion", PointerBase + 10, PointerBase + 5)
    /\ renderer.last_x = PointerBase /\ renderer.last_y = PointerBase
    /\ renderer.rotation_x = 0 /\ renderer.rotation_y = 0
    /\ canvas = <<>>

\* C14: from the button-down of a gesture on a loaded mesh to any later point
\* of it, rotation_y has changed by 0.01 times the pointer's net travel in x
\* and rotation_x by 0.01 times its net travel in y, the pointer being where
\* the last move put it, however many moves there were and wherever they
\* went; and a button-down changes the last pointer position and nothing else.
C14_GestureNetRotation ==
    /\ [](gesture.held =>
            /\ renderer.rotation_y - gesture.rotation_y
                   = Sensitivity * (renderer.last_x - gesture.x)
            /\ renderer.rotation_x - gesture.rotation_x
                   = Sensitivity * (renderer.last_y - gesture.y)
            /\ event.type = "motion"
                   => renderer.last_x = event.x /\ renderer.last_y = event.y)
    /\ [][event'.type = "button" =>
            /\ renderer' = [renderer EXCEPT !.last_x = event'.x, !.last_y = event'.y]
            /\ canvas' = canvas
            /\ object' = object]_vars

\* A gesture on an already turned mesh that reached the far position by way
\* of the middle one, in two moves.
C14_TwoMovesOneGesture ==
    /\ gesture.held
    /\ gesture.moves = 2
    /\ gesture.x = PointerBase /\ gesture.y = PointerBase
    /\ gesture.rotation_y # 0
    /\ event = Event("motion", PointerBase + 20, PointerBase + 10)
    /\ renderer.rotation_y - gesture.rotation_y = 200
    /\ renderer.rotation_x - gesture.rotation_x = 100
    /\ Fresh3D

\* C12: an event is taken from the queue only when no callback is running; a
\* pointer-move taken with a mesh loaded updates the angles and starts a
\* render; that render first clears the canvas, then draws the mesh with the
\* angles the move left, and nothing else touches the view state, the mesh
\* or the canvas until it has ended; and a render that has started ends.
C12_OneRenderPerMove ==
    /\ [][ /\ Len(pending') < Len(pending) => pc = "idle"
           /\ ( /\ Len(pending') < Len(pending)
                /\ Head(pending).type = "motion"
                /\ ~object.is_none )
              => /\ pc' = "render"
                 /\ renderer' = drag(renderer, Head(pending).x, Head(pending).y)
                 /\ canvas' = canvas
           /\ (pc = "render" /\ pc' # "render")
              => /\ pc' = "draw"
                 /\ canvas' = <<>>
           /\ (pc = "draw" /\ pc' # "draw")
              => /\ pc' = "idle"
                 /\ renderer' = renderer
                 /\ canvas' = Draw3D(object, renderer, width, height).canvas
           /\ pc # "idle"
              => /\ event' = event
                 /\ object' = object
                 /\ renderer'.rotation_x = renderer.rotation_x
                 /\ renderer'.rotation_y = renderer.rotation_y
                 /\ renderer'.last_x = renderer.last_x
                 /\ renderer'.last_y = renderer.last_y
           /\ canvas' # canvas => pc \in {"render", "draw"} /\ pc' # pc ]_vars
    /\ (pc = "render" ~> pc = "idle")

\* The render of a pointer-move has cleared the canvas and not yet drawn, and
\* the next pointer-move is already queued.
C12_MoveQueuedDuringRender ==
    /\ pc = "draw"
    /\ event.type = "motion"
    /\ ~object.is_none
    /\ renderer.rotation_y # 0
    /\ canvas = <<>>
    /\ pending # <<>>
    /\ Head(pending).type = "motion"
    /\ Head(pending).x # event.x
====
